---- MODULE Spec2Model ----
(***************************************************************************)
(* Render-failure containment in learning-error-boundaries.                *)
(*                                                                         *)
(* The repository's program is a React component tree: the retry-capable   *)
(* ErrorBoundary (src/unnamed/part_001, lines 66-105), the ErrorFallback   *)
(* panel, and three leaf components that raise on purpose.  The host       *)
(* runtime (React) drives them: it constructs a subtree, hands a failure   *)
(* raised during construction to the nearest enclosing boundary            *)
(* (getDerivedStateFromError), commits the output, and then calls          *)
(* componentDidCatch.  Event handlers and timers run outside any           *)
(* construction pass.                                                      *)
(***************************************************************************)
EXTENDS Integers, Sequences, FiniteSets, TLC

VARIABLES
    layout,     \* which component tree is mounted (chosen once)
    DEV,        \* import.meta.env.DEV
    pc,         \* "mount" | "idle" | "render" | "commit"
    st,         \* this.state of every ErrorBoundary instance
    out,        \* what each boundary's last render() returned
    mounted,    \* nodes currently in the committed tree
    dirty,      \* the boundary whose setState scheduled the pending re-render
    caught,     \* captures of the last pass awaiting componentDidCatch
    sink,       \* records handed to the monitoring sink (console.log)
    uncaught,   \* failures that reached the global handler
    handled,    \* console.error calls of AsyncComponentFix's catch block
    timers,     \* pending setTimeout callbacks of AsyncError
    crashed,    \* a construction failure reached the root
    nthrown,    \* number of Error objects created so far (object identity)
    clock,      \* the time new Date() reads
    notified,   \* calls made to a caller-supplied onError prop
    basic,      \* an instance of the basic ErrorBoundary variant given the same subtree
    smart,      \* an instance of the documented SmartErrorBoundary
    enhanced,   \* an instance of the documented EnhancedErrorBoundary
    boundary,   \* an ErrorBoundary around one BuggyComponent, retried without end
    last        \* the step just taken: [op, node]

vars == <<layout, DEV, pc, st, out, mounted, dirty, caught, sink, uncaught,
          handled, timers, crashed, nthrown, clock, notified, last, basic, smart, enhanced,
          boundary>>

\* the instances of the other ErrorBoundary variants
variants == <<basic, smart, enhanced, boundary>>

----------------------------------------------------------------------------
(* Bounds of the model *)

MaxThrows == 3

MaxUncaught == 2

MaxHandled == 2

MaxClock == 2

----------------------------------------------------------------------------
(* Values *)

null == [tag |-> "null"]

NoThrow == [tag |-> "none"]

\* new Error(message): a fresh object, told apart by its identity id
NewError(message, id) == [tag |-> "Error", message |-> message, id |-> id]

\* Math.random() is in [0,1); draws are kept in tenths
Draws == 0..9

\* the literal 0.5 of BuggyComponent, in tenths
Threshold == 5

----------------------------------------------------------------------------
(* Component trees.  Node 1 is the root; nodes are numbered in document    *)
(* order, so a node's children are constructed in increasing order.        *)

Layouts == {"App", "AppFlat", "Deep", "Timer", "Siblings", "Custom"}

\* trees whose unit throws the value null instead of an Error object
NullLayouts == {"NullFlat", "NullNested"}

\* <ErrorBoundary><h1/><ErrorBoundary><h3/><BuggyComponent shouldThrow/>
\* </ErrorBoundary><div/></ErrorBoundary>
AppTree ==
    [kind   |-> <<"root", "boundary", "static", "boundary", "static", "buggy", "static">>,
     parent |-> <<0, 1, 2, 2, 4, 4, 2>>]

\* the single-boundary composition kept in App's comments
AppFlatTree ==
    [kind   |-> <<"root", "boundary", "buggy", "asyncBuggy", "asyncFix">>,
     parent |-> <<0, 1, 2, 2, 2>>]

\* <ErrorBoundary><Parent><Child><BrokenGrandChild/></Child></Parent></ErrorBoundary>
DeepTree ==
    [kind   |-> <<"root", "boundary", "static", "static", "broken">>,
     parent |-> <<0, 1, 2, 3, 4>>]

\* a boundary around the guide's AsyncError (setTimeout that throws)
TimerTree ==
    [kind   |-> <<"root", "boundary", "asyncError">>,
     parent |-> <<0, 1, 2>>]

\* two sibling subtrees, each in its own boundary; the units that may raise
\* are BuggyComponents
SiblingsTree ==
    [kind   |-> <<"root", "boundary", "buggy", "boundary", "buggy">>,
     parent |-> <<0, 1, 2, 1, 4>>]

\* <ErrorBoundary fallback={<CustomErrorUI />} onError={...}> around a unit
\* that may raise
CustomTree ==
    [kind   |-> <<"root", "boundary", "buggy">>,
     parent |-> <<0, 1, 2>>]

\* one boundary around a unit that executes throw null
NullFlatTree ==
    [kind   |-> <<"root", "boundary", "throwsNull">>,
     parent |-> <<0, 1, 2>>]

\* an outer boundary around an unrelated sibling and an inner boundary whose
\* unit executes throw null
NullNestedTree ==
    [kind   |-> <<"root", "boundary", "static", "boundary", "throwsNull">>,
     parent |-> <<0, 1, 2, 2, 4>>]

Tree(l) ==
    CASE l = "App"        -> AppTree
      [] l = "AppFlat"    -> AppFlatTree
      [] l = "Deep"       -> DeepTree
      [] l = "Timer"      -> TimerTree
      [] l = "Siblings"   -> SiblingsTree
      [] l = "Custom"     -> CustomTree
      [] l = "NullFlat"   -> NullFlatTree
      [] l = "NullNested" -> NullNestedTree

\* the props other than children a boundary element is given
Props(l, b) ==
    IF l = "Custom"
    THEN [fallback |-> "CustomErrorUI", onError |-> TRUE]
    ELSE [fallback |-> "none", onError |-> FALSE]

Nodes(l) == DOMAIN Tree(l).kind

Kind(l, n) == Tree(l).kind[n]

Parent(l, n) == Tree(l).parent[n]

Children(l, n) == {m \in Nodes(l) : Parent(l, m) = n}

Boundaries(l) == {n \in Nodes(l) : Kind(l, n) = "boundary"}

BuggyNodes(l) == {n \in Nodes(l) : Kind(l, n) = "buggy"}

RECURSIVE Ancestors(_, _)
Ancestors(l, n) ==
    IF Parent(l, n) = 0 THEN {}
    ELSE {Parent(l, n)} \cup Ancestors(l, Parent(l, n))

Descendants(l, n) == {m \in Nodes(l) : n \in Ancestors(l, m)}

\* the boundary a failure raised at node n unwinds to, 0 if there is none
NearestBoundary(l, n) ==
    LET bs == Ancestors(l, n) \cap Boundaries(l)
    IN IF bs = {} THEN 0 ELSE CHOOSE b \in bs : \A c \in bs : c <= b

----------------------------------------------------------------------------
(* The components, as pure functions of their inputs *)

\* a BuggyComponent that raises whenever shouldThrow is set, whatever the draw
BuggyComponentAlwaysThrows(shouldThrow, draw) ==
    IF shouldThrow
    THEN [raised |-> TRUE, message |-> "Random crash!"]
    ELSE [raised |-> FALSE, view |-> "I am working fine!"]

\* BuggyComponent({ shouldThrow }) with the pass's Math.random() draw
BuggyComponent(shouldThrow, draw) ==
    LET shouldError == draw < Threshold
    IN IF shouldThrow /\ shouldError
       THEN [raised |-> TRUE, message |-> "Random crash!"]
       ELSE [raised |-> FALSE, view |-> "I am working fine!"]

\* the shouldThrow prop a BuggyComponent node is given in its tree
ShouldThrow(l, n) == Kind(l, n) = "buggy"

\* a fallback that shows the failure's message whatever the environment
ErrorFallbackShowsDetails(error, retry_, dev) ==
    IF error = null
    THEN [raised |-> TRUE, message |-> "Cannot read properties of null"]
    ELSE [raised  |-> FALSE,
          view    |-> "Oops! Something went wrong",
          onClick |-> retry_,
          details |-> error.message]

\* a fallback that tests the failure before reading its message
ErrorFallbackGuarded(error, retry_, dev) ==
    [raised  |-> FALSE,
     view    |-> "Oops! Something went wrong",
     onClick |-> retry_,
     details |-> IF dev /\ error # null THEN error.message ELSE "hidden"]

\* a fallback that reads a field of an object the failure does not have
ErrorFallbackBadField(error, retry_, dev) ==
    IF dev
    THEN [raised |-> TRUE, message |-> "Cannot read properties of undefined"]
    ELSE [raised  |-> FALSE,
          view    |-> "Oops! Something went wrong",
          onClick |-> retry_,
          details |-> "hidden"]

\* ErrorFallback({ error, retry }): the button is wired to retry; the details
\* block reads error.message, and only when DEV is set
ErrorFallback(error, retry_, dev) ==
    IF dev /\ error = null
    THEN [raised |-> TRUE, message |-> "Cannot read properties of null"]
    ELSE [raised  |-> FALSE,
          view    |-> "Oops! Something went wrong",
          onClick |-> retry_,
          details |-> IF dev THEN error.message ELSE "hidden"]

\* ---- the basic ErrorBoundary variant ----

\* ---- the documented SmartErrorBoundary ----

\* const { maxRetries = 3 } = this.props
DefaultMaxRetries == 3

\* the largest maxRetries prop tried
MaxMaxRetries == 2

\* the props a SmartErrorBoundary is given: no maxRetries, or a number
SmartPropsSet == {<<>>} \cup {[maxRetries |-> m] : m \in 0..MaxMaxRetries}

MaxRetriesOf(props) ==
    IF "maxRetries" \in DOMAIN props THEN props.maxRetries ELSE DefaultMaxRetries

\* constructor
SmartInitialState ==
    [hasError |-> FALSE, error |-> null, retryCount |-> 0, lastRetryTime |-> null]

\* static getDerivedStateFromError(error) { return { hasError: true, error } }
SmartGetDerivedStateFromError(s, error) == [s EXCEPT !.hasError = TRUE, !.error = error]

\* a retry with no budget test
SmartRetryUnguarded(s, props) == [alert |-> FALSE, queued |-> TRUE]

\* retry(): refused with an alert once retryCount >= maxRetries, else
\* this.setState(fn) queues the update function and schedules a pass
SmartRetry(s, props) ==
    IF s.retryCount >= MaxRetriesOf(props)
    THEN [alert |-> TRUE, queued |-> FALSE]
    ELSE [alert |-> FALSE, queued |-> TRUE]

\* the function retry() hands to setState, called with the state and the
\* clock of the moment the update is processed
SmartRetryUpdate(prevState, now) ==
    [hasError |-> FALSE, error |-> null,
     retryCount |-> prevState.retryCount + 1, lastRetryTime |-> now]

\* render()
SmartRender(s) ==
    IF s.hasError
    THEN [type |-> "Component Error", attempts |-> s.retryCount]
    ELSE [type |-> "children"]

\* a new instance with the given props
SmartNew(props) ==
    [props |-> props, state |-> SmartInitialState, pc |-> "mount",
     out |-> [type |-> "none"], childrenMounted |-> FALSE,
     alerted |-> FALSE, attempts |-> 0, queued |-> FALSE]

\* the state a pass starts from: the queued update function, if any, is
\* called first, at the time now
SmartProcessUpdates(m, now) ==
    [m EXCEPT !.state = IF m.queued THEN SmartRetryUpdate(@, now) ELSE @,
              !.queued = FALSE]

\* a construction pass of instance m0 at the time now whose child draws d
SmartPass(m0, d, now) ==
    LET m == SmartProcessUpdates(m0, now)
    IN IF SmartRender(m.state).type # "children"
       THEN [m EXCEPT !.out = SmartRender(m.state), !.childrenMounted = FALSE, !.pc = "idle"]
       ELSE LET r == BuggyComponent(TRUE, d)
            IN IF ~r.raised
               THEN [m EXCEPT !.out = SmartRender(m.state), !.childrenMounted = TRUE,
                              !.pc = "idle", !.attempts = @ + 1]
               ELSE LET s1 == SmartGetDerivedStateFromError(
                                  m.state, NewError(r.message, m.attempts + 1))
                    IN [m EXCEPT !.state = s1, !.out = SmartRender(s1),
                                 !.childrenMounted = FALSE, !.pc = "idle",
                                 !.attempts = @ + 1]

\* ---- the documented EnhancedErrorBoundary ----

\* the most manual retries followed on one instance
MaxManualRetries == 2

\* a message is a sequence of parts; String.includes finds a part in it
Includes(message, part) == \E i \in 1..Len(message) : message[i] = part

\* const transientMessages = ['ChunkLoadError', 'Network Error', 'Failed to fetch']
transientMessages == {"ChunkLoadError", "Network Error", "Failed to fetch"}

\* isTransientError(error)
isTransientError(error) ==
    \E msg \in transientMessages : Includes(error.message, msg)

\* what constructing the child can raise, by the kind of child
ChildFailures(child) ==
    IF child = "alwaysTransient"
    THEN {<<"Network Error">>}
    ELSE {<<"TypeError:", "Failed to fetch">>, <<"Random crash!">>}

\* whether constructing the child can succeed
ChildCanSucceed(child) == child # "alwaysTransient"

\* what one construction of the child gives: NoThrow, or a new Error
ChildOutcomes(child, id) ==
    (IF ChildCanSucceed(child) THEN {NoThrow} ELSE {})
       \cup {NewError(msg, id) : msg \in ChildFailures(child)}

\* constructor
EnhancedInitialState ==
    [hasError |-> FALSE, error |-> null, errorInfo |-> null, retryCount |-> 0]

\* static getDerivedStateFromError(error) { return { hasError: true, error } }
EnhancedGetDerivedStateFromError(s, error) ==
    [s EXCEPT !.hasError = TRUE, !.error = error]

\* an automatic retry scheduled for every transient failure
EnhancedSchedulesAlways(s, props, error) == isTransientError(error)

\* componentDidCatch's test before setTimeout(() => this.retry(), 1000)
EnhancedSchedules(s, props, error) ==
    s.retryCount < MaxRetriesOf(props) /\ isTransientError(error)

\* retry(): the functional setState, with no test of the state
EnhancedRetry(s) ==
    [hasError |-> FALSE, error |-> null, errorInfo |-> null,
     retryCount |-> s.retryCount + 1]

\* render() with no FallbackComponent and no fallback prop
EnhancedRender(s) ==
    IF s.hasError THEN [type |-> "Something went wrong"] ELSE [type |-> "children"]

\* a new instance with the given props around the given kind of child
EnhancedNew(props, child) ==
    [props |-> props, child |-> child, state |-> EnhancedInitialState,
     pc |-> "mount", out |-> [type |-> "none"], childrenMounted |-> FALSE,
     pending |-> NoThrow, timers |-> <<>>, episode |-> 0,
     autoRetries |-> 0, manualRetries |-> 0]

\* a construction pass of instance m; thrown is what constructing the child
\* raises (NoThrow if nothing) when the pass constructs it
EnhancedPass(m, thrown) ==
    IF EnhancedRender(m.state).type # "children"
    THEN [m EXCEPT !.out = EnhancedRender(m.state), !.childrenMounted = FALSE,
                   !.pc = "idle"]
    ELSE IF m.out.type = "children" /\ m.childrenMounted
    THEN [m EXCEPT !.pc = "idle"]
    ELSE IF thrown = NoThrow
    THEN [m EXCEPT !.out = EnhancedRender(m.state), !.childrenMounted = TRUE,
                   !.pc = "idle"]
    ELSE LET s1 == EnhancedGetDerivedStateFromError(m.state, thrown)
         IN [m EXCEPT !.state = s1, !.out = EnhancedRender(s1),
                      !.childrenMounted = FALSE, !.pending = thrown,
                      !.episode = @ + 1, !.pc = "commit"]

\* componentDidCatch(error, errorInfo) of instance m
EnhancedDidCatch(m, error, errorInfo) ==
    [m EXCEPT !.state.errorInfo = errorInfo,
              !.timers = IF EnhancedSchedules(m.state, m.props, error)
                         THEN Append(@, [episode |-> m.episode])
                         ELSE @,
              !.pending = NoThrow,
              !.pc = "idle"]

\* constructor: this.state = { hasError: false }
BasicInitialState == [hasError |-> FALSE]

\* a basic getDerivedStateFromError that leaves the state Healthy
BasicGetDerivedStateFromErrorKeeps(error) == [hasError |-> FALSE]

\* static getDerivedStateFromError(error) { return { hasError: true } }
BasicGetDerivedStateFromError(error) == [hasError |-> TRUE]

\* a basic render that returns the children whatever the state
BasicRenderAlwaysChildren(s, children) == [type |-> "children", children |-> children]

\* render(): <h2>Something went wrong!</h2> when hasError, else the children
BasicRender(s, children) ==
    IF s.hasError
    THEN [type |-> "h2", text |-> "Something went wrong!"]
    ELSE [type |-> "children", children |-> children]

\* componentDidCatch(error, errorInfo): console.error only
BasicComponentDidCatch(b, error) == [b EXCEPT !.console = Append(@, error)]

\* a basic instance before its first render
BasicNew ==
    [state |-> BasicInitialState, out |-> [type |-> "none"], childrenMounted |-> FALSE,
     pending |-> <<>>, console |-> <<>>]

\* one construction pass of the basic instance b around the given children;
\* thrown is what constructing the children raises in this pass (NoThrow if
\* nothing), and it matters only if render() returns the children
BasicPass(b, children, thrown) ==
    IF BasicRender(b.state, children).type # "children"
    THEN [b EXCEPT !.out = BasicRender(b.state, children), !.childrenMounted = FALSE]
    ELSE IF thrown = NoThrow
    THEN [b EXCEPT !.out = BasicRender(b.state, children), !.childrenMounted = TRUE]
    ELSE LET s1 == [hasError |-> BasicGetDerivedStateFromError(thrown).hasError]
         IN [b EXCEPT !.state = s1,
                      !.out = BasicRender(s1, children),
                      !.childrenMounted = BasicRender(s1, children).type = "children",
                      !.pending = Append(@, thrown)]

\* commit of a pass of the basic instance: the runtime calls
\* componentDidCatch of the boundary that captured, before anything else runs
BasicCommit(b) ==
    IF b.pending = <<>>
    THEN b
    ELSE BasicComponentDidCatch([b EXCEPT !.pending = Tail(@)], Head(b.pending))

\* ErrorBoundary.constructor: this.state = { hasError: false, error: null }
InitialState == [hasError |-> FALSE, error |-> null]

\* the basic variant's hook, which records no failure
GetDerivedStateFromErrorBasic(error) == [hasError |-> TRUE]

\* a hook that records the failure but forgets the flag
GetDerivedStateFromErrorNoFlag(error) == [error |-> error]

\* static getDerivedStateFromError(error)
getDerivedStateFromError(error) == [hasError |-> TRUE, error |-> error]

\* a retry that flips the flag the wrong way
RetrySetsFailed == [hasError |-> TRUE]

\* a retry that overwrites the stored failure with undefined
RetryUndefinedError == [hasError |-> FALSE, error |-> [tag |-> "undefined"]]

\* the partial state retry() passes to setState
retry == [hasError |-> FALSE]

\* this.setState(partial): a shallow merge, keys not named are kept
setState(s, partial) ==
    [hasError |-> IF "hasError" \in DOMAIN partial THEN partial.hasError ELSE s.hasError,
     error    |-> IF "error" \in DOMAIN partial THEN partial.error ELSE s.error]

NotRendered == [type |-> "none"]

\* a render that passes an unbound retry (no instance behind it)
RenderUnboundRetry(s, self, children) ==
    IF s.hasError
    THEN [type |-> "ErrorFallback", error |-> s.error, retry |-> 0]
    ELSE [type |-> "children", children |-> children]

\* a render that tests the stored error instead of the flag
RenderTestsError(s, self, children) ==
    IF s.error # null
    THEN [type |-> "ErrorFallback", error |-> s.error, retry |-> self]
    ELSE [type |-> "children", children |-> children]

\* ErrorBoundary.render(): the element it returns
render(s, self, children) ==
    IF s.hasError
    THEN [type |-> "ErrorFallback", error |-> s.error, retry |-> self]
    ELSE [type |-> "children", children |-> children]

\* Date.prototype.toISOString of the time t
ToISOString(t) == [format |-> "ISO-8601", ms |-> t]

\* logErrorToService(error, errorInfo), called at time now: the record given
\* to the sink; reading error.message raises when error is null
logErrorToService(error, errorInfo, now) ==
    IF error = null
    THEN [raised |-> TRUE, message |-> "Cannot read properties of null"]
    ELSE [raised |-> FALSE,
          record |-> [message   |-> error.message,
                      component |-> errorInfo.componentStack,
                      timestamp |-> ToISOString(now)]]

\* componentDidCatch(error, errorInfo): console.error, then the sink
componentDidCatch(error, errorInfo, now) == logErrorToService(error, errorInfo, now)

----------------------------------------------------------------------------
(* One construction pass of the host runtime.  A pass threads a context    *)
(* through the tree: boundary states, render outputs, the nodes mounted,   *)
(* the captures made, and the failure currently unwinding (NoThrow if      *)
(* none).                                                                  *)

Context ==
    [st |-> st, out |-> out, mounted |-> mounted, caught |-> <<>>,
     nthrown |-> nthrown, thrown |-> NoThrow, thrower |-> 0]

MountNode(c, n) == [c EXCEPT !.mounted = @ \cup {n}]

\* the value of the one-element set S; an operator written as
\* Value({e : c \in {c0}}) computes its argument c0 once and e from the result
Value(S) == CHOOSE r \in S : TRUE

\* throw new Error(message) while constructing node n
Throw(c0, message, n) ==
    Value({(
         [c EXCEPT !.thrown  = NewError(message, c.nthrown + 1),
                   !.thrower = n,
                   !.nthrown = @ + 1]
         ) : c \in {c0}})

\* throw null while constructing node n: no object is created
ThrowNull(c, n) == [c EXCEPT !.thrown = null, !.thrower = n]

\* captures still awaiting componentDidCatch once the instances below b are gone
Surviving(l, b, q) ==
    LET Keep(e) == e.boundary \notin Descendants(l, b)
    IN SelectSeq(q, Keep)

\* a capture that writes the failure into a state shared by all boundaries
CaptureShared(l, b, c) ==
    [c EXCEPT
       !.st      = [x \in Boundaries(l) |->
                      setState(c.st[x], getDerivedStateFromError(c.thrown))],
       !.mounted = @ \ Descendants(l, b),
       !.caught  = Append(c.caught,
                          [boundary |-> b, error |-> c.thrown,
                           errorInfo |-> [componentStack |-> c.thrower]]),
       !.thrown  = NoThrow,
       !.thrower = 0]

\* The runtime unwinds to boundary b: the partially constructed subtree is
\* discarded (instances below b are destroyed), b's state is updated with
\* getDerivedStateFromError, and componentDidCatch is queued for the commit.
Capture(l, b, c0) ==
    Value({(
         [c EXCEPT
            !.st      = [x \in Boundaries(l) |->
                           IF x = b THEN setState(c.st[b], getDerivedStateFromError(c.thrown))
                           ELSE IF x \in Descendants(l, b) THEN InitialState
                           ELSE c.st[x]],
            !.out     = [x \in Boundaries(l) |->
                           IF x \in Descendants(l, b) THEN NotRendered ELSE c.out[x]],
            !.mounted = @ \ Descendants(l, b),
            !.caught  = Append(Surviving(l, b, c.caught),
                               [boundary |-> b, error |-> c.thrown,
                                errorInfo |-> [componentStack |-> c.thrower]]),
            !.thrown  = NoThrow,
            !.thrower = 0]
         ) : c \in {c0}})

\* boundary b renders in the Failed state: render() returns the ErrorFallback
\* element, which is then constructed; a failure of the fallback is b's own
ShowFallback(l, b, c0, dev) ==
    Value({(
         LET el == render(c.st[b], b, Children(l, b))
             v  == ErrorFallback(el.error, el.retry, dev)
         IN IF v.raised
            THEN Throw([c EXCEPT !.mounted = @ \ {b}, !.out[b] = NotRendered], v.message, b)
            ELSE [MountNode(c, b) EXCEPT !.out[b] = el]
         ) : c \in {c0}})

\* the failure unwinding in c reaches boundary b.  If b's render() still
\* returns its children after the capture, b has not handled the failure and
\* the runtime lets it unwind further.
CaptureAndShow(l, b, c0, dev) ==
    Value({(
         LET c1 == Capture(l, b, c)
         IN IF render(c1.st[b], b, Children(l, b)).type = "ErrorFallback"
            THEN ShowFallback(l, b, c1, dev)
            ELSE [c1 EXCEPT !.thrown = c.thrown, !.thrower = c.thrower,
                            !.caught = c.caught,
                            !.mounted = @ \ {b}, !.out[b] = NotRendered]
         ) : c \in {c0}})

RECURSIVE RenderNode(_, _, _, _, _)
RECURSIVE RenderChildren(_, _, _, _, _)

\* construct the nodes of S in document order, stopping at an unwinding failure
RenderChildren(l, S, c0, draws, dev) ==
    Value({(
         IF S = {} \/ c.thrown # NoThrow THEN c
         ELSE LET n == CHOOSE m \in S : \A k \in S : m <= k
              IN RenderChildren(l, S \ {n}, RenderNode(l, n, c, draws, dev), draws, dev)
         ) : c \in {c0}})

RenderNode(l, n, c0, draws, dev) ==
    Value({(
         LET k == Kind(l, n)
         IN CASE k = "buggy" ->
                   LET r == BuggyComponent(ShouldThrow(l, n), draws[n])
                   IN IF r.raised THEN Throw(c, r.message, n) ELSE MountNode(c, n)
              [] k = "broken" -> Throw(c, "Cannot read properties of null", n)
              [] k = "throwsNull" -> ThrowNull(c, n)
              [] k = "boundary" ->
                   IF render(c.st[n], n, Children(l, n)).type = "ErrorFallback"
                   THEN ShowFallback(l, n, c, dev)
                   ELSE LET c1 == [MountNode(c, n) EXCEPT
                                     !.out[n] = render(c.st[n], n, Children(l, n))]
                            r  == RenderChildren(l, Children(l, n), c1, draws, dev)
                        IN IF r.thrown = NoThrow THEN r
                           ELSE CaptureAndShow(l, n, r, dev)
              [] OTHER -> RenderChildren(l, Children(l, n), MountNode(c, n), draws, dev)
         ) : c \in {c0}})

\* a failure that left node n unwinds to the nearest boundary above it, and
\* on from there if that boundary's own fallback fails
RECURSIVE Unwind(_, _, _, _)
Unwind(l, n, c0, dev) ==
    Value({(
         IF c.thrown = NoThrow THEN c
         ELSE LET a == NearestBoundary(l, n)
              IN IF a = 0 THEN c
                 ELSE Unwind(l, a, CaptureAndShow(l, a, c, dev), dev)
         ) : c \in {c0}})

\* a pass after setState that never constructs anything again
RerenderKeepsOutput(l, b, c, draws, dev) == c

\* the pass that follows setState on boundary b.  A boundary that returned
\* this.props.children before and returns it again gives the runtime the same
\* elements, and the runtime does not construct them again.
Rerender(l, b, c0, draws, dev) ==
    Value({(
         IF /\ render(c.st[b], b, Children(l, b)).type = "children"
            /\ c.out[b].type = "children"
         THEN c
         ELSE Unwind(l, b, RenderNode(l, b, c, draws, dev), dev)
         ) : c \in {c0}})

\* commit of a pass: the outputs replace the tree, effects of newly mounted
\* AsyncError nodes start their timers, captures await componentDidCatch
Commit(r, op, node) ==
    /\ crashed' = (r.thrown # NoThrow)
    /\ st' = IF r.thrown # NoThrow THEN [x \in DOMAIN st |-> InitialState] ELSE r.st
    /\ out' = IF r.thrown # NoThrow THEN [x \in DOMAIN out |-> NotRendered] ELSE r.out
    /\ mounted' = IF r.thrown # NoThrow THEN {} ELSE r.mounted
    /\ caught' = IF r.thrown # NoThrow THEN <<>> ELSE r.caught
    /\ nthrown' = r.nthrown
    /\ timers' = IF r.thrown # NoThrow THEN timers
                 ELSE timers + Cardinality({n \in r.mounted \ mounted :
                                              Kind(layout, n) = "asyncError"})
    /\ pc' = IF r.caught # <<>> /\ r.thrown = NoThrow THEN "commit" ELSE "idle"
    /\ last' = [op |-> op, node |-> node]
    /\ dirty' = 0
    /\ UNCHANGED <<layout, DEV, notified, sink, uncaught, handled, clock>>

\* ---- one ErrorBoundary around one BuggyComponent, as an instance ----

\* <ErrorBoundary><BuggyComponent shouldThrow={true} /></ErrorBoundary>
BoundaryChildren == {"BuggyComponent"}

\* a new instance: nothing rendered, nothing captured, nothing logged
BoundaryNew ==
    [state |-> InitialState, out |-> NotRendered, childMounted |-> FALSE,
     pc |-> "mount", pending |-> NoThrow, logged |-> null, crashed |-> FALSE]

\* the Error objects instance m still refers to: the stored failure, the
\* failure handed to the fallback on screen, the capture awaiting
\* componentDidCatch
BoundaryLive(m) ==
    {e \in {m.state.error, m.pending}
             \cup (IF m.out.type = "ErrorFallback" THEN {m.out.error} ELSE {}) :
        e.tag = "Error"}

\* new Error(...): an object that is none of those the instance refers to.
\* An object is named by the least number that names none of them, so that
\* two objects referred to at the same time never have the same name.
BoundaryNewError(m, message) ==
    LET used == {e.id : e \in BoundaryLive(m)}
    IN NewError(message,
                CHOOSE i \in 1..(Cardinality(used) + 1) :
                   /\ i \notin used
                   /\ \A j \in 1..(Cardinality(used) + 1) : j \notin used => i <= j)

\* the root is torn down: a failure no boundary handled
BoundaryUnhandled(m) ==
    [m EXCEPT !.state = InitialState, !.out = NotRendered, !.childMounted = FALSE,
              !.pending = NoThrow, !.pc = "idle", !.crashed = TRUE]

\* the instance renders with state s1: the fallback is constructed if
\* render() returns it; a failure of the fallback has no boundary above
BoundaryShow(m, s1, dev, pending, pc_) ==
    LET el == render(s1, "boundary", BoundaryChildren)
    IN IF el.type # "ErrorFallback"
       THEN BoundaryUnhandled(m)
       ELSE IF ErrorFallback(el.error, el.retry, dev).raised
       THEN BoundaryUnhandled(m)
       ELSE [m EXCEPT !.state = s1, !.out = el, !.childMounted = FALSE,
                      !.pending = pending, !.pc = pc_]

\* one construction pass of instance m in which Math.random() gives d
BoundaryPass(m, d, dev) ==
    LET el == render(m.state, "boundary", BoundaryChildren)
    IN IF el.type = "ErrorFallback"
       THEN BoundaryShow(m, m.state, dev, NoThrow, "idle")
       ELSE IF m.out.type = "children" /\ m.childMounted
       THEN [m EXCEPT !.pc = "idle"]
       ELSE LET r == BuggyComponent(TRUE, d)
            IN IF ~r.raised
               THEN [m EXCEPT !.out = el, !.childMounted = TRUE, !.pc = "idle"]
               ELSE LET e == BoundaryNewError(m, r.message)
                    IN BoundaryShow(m, setState(m.state, getDerivedStateFromError(e)),
                                    dev, e, "commit")

\* the commit of the pass that captured: componentDidCatch(error, errorInfo)
BoundaryDidCatch(m, now) ==
    LET r == componentDidCatch(m.pending, [componentStack |-> "BuggyComponent"], now)
    IN IF r.raised
       THEN BoundaryUnhandled(m)
       ELSE [m EXCEPT !.logged = r.record, !.pending = NoThrow, !.pc = "idle"]

\* this.retry(): setState({ hasError: false }) and the pass it schedules
BoundaryRetry(m) ==
    [m EXCEPT !.state = setState(@, retry), !.pc = "render"]

\* the failures numbered once the pass with result r and its commit are
\* over, at most: those of the pass, and one for every queued
\* componentDidCatch that raises
PassFailures(r) ==
    r.nthrown + Cardinality({i \in 1..Len(r.caught) :
                   componentDidCatch(r.caught[i].error, r.caught[i].errorInfo, clock).raised})

\* the retries followed in the trees: retry() itself tests nothing; a retry
\* on b is followed while the pass it schedules stays within the MaxThrows
\* numbered failures whatever the draws.  Retries without a bound are
\* followed on the instance of SpecRetry.
RetryWithinBound(b) ==
    \A draws \in [BuggyNodes(layout) -> Draws] :
       \A r \in {Rerender(layout, b, [Context EXCEPT !.st[b] = setState(@, retry)],
                          draws, DEV)} :
          PassFailures(r) <= MaxThrows

----------------------------------------------------------------------------
(* Actions *)

\* the state right after construction, for a tree of the set L
InitMain(L) ==
    /\ layout \in L
    /\ clock = 0
    /\ notified = <<>>
    /\ DEV \in BOOLEAN
    /\ pc = "mount"
    /\ st = [b \in Boundaries(layout) |-> InitialState]
    /\ out = [b \in Boundaries(layout) |-> NotRendered]
    /\ mounted = {}
    /\ dirty = 0
    /\ caught = <<>>
    /\ sink = <<>>
    /\ uncaught = <<>>
    /\ handled = 0
    /\ timers = 0
    /\ crashed = FALSE
    /\ nthrown = 0
    /\ last = [op |-> "init", node |-> 0]

\* the same, with a new instance of each other variant beside it
InitOf(L) ==
    /\ InitMain(L)
    /\ basic = BasicNew
    /\ smart = SmartNew(<<>>)
    /\ enhanced = EnhancedNew(<<>>, "random")
    /\ boundary = BoundaryNew

Init == InitOf(Layouts)

\* the boundary given any subtree, also one that throws null
InitAll == InitOf(Layouts \cup NullLayouts)

\* createRoot(...).render(<App />): the first construction pass
Mount ==
    /\ pc = "mount"
    /\ \E draws \in [BuggyNodes(layout) -> Draws] :
         \E r \in {RenderNode(layout, 1, Context, draws, DEV)} :
            Commit(r, "mount", 1)
    /\ UNCHANGED variants

\* the construction pass scheduled by retry's setState
Reconstruct ==
    /\ pc = "render"
    /\ \E draws \in [BuggyNodes(layout) -> Draws] :
         \E r \in {Rerender(layout, dirty, Context, draws, DEV)} :
            Commit(r, "construct", dirty)
    /\ UNCHANGED variants

\* componentDidCatch raised for the capture h: the failure is the boundary's
\* own, so it unwinds from the boundary to the nearest boundary above it, or
\* to the root
ReportRaised(h, r) ==
    \E u \in {Unwind(layout, h.boundary,
                      Throw([Context EXCEPT !.caught = Tail(caught)], r.message, h.boundary),
                      DEV)} :
       /\ Commit(u, "componentDidCatch", h.boundary)
       /\ UNCHANGED variants

\* a componentDidCatch that also resets the boundary after reporting
ComponentDidCatchRecovers ==
    /\ pc = "commit"
    /\ caught # <<>>
    /\ LET h == Head(caught)
           r == componentDidCatch(h.error, h.errorInfo, clock)
       IN /\ ~r.raised
          /\ sink' = Append(sink, r.record)
          /\ caught' = Tail(caught)
          /\ st' = [st EXCEPT ![h.boundary] = setState(@, retry)]
          /\ pc' = IF Tail(caught) = <<>> THEN "idle" ELSE "commit"
          /\ last' = [op |-> "componentDidCatch", node |-> h.boundary]
    /\ UNCHANGED <<variants, layout, DEV, notified, clock, out, mounted, dirty, uncaught,
                   handled, timers, crashed, nthrown>>

\* a componentDidCatch that calls this.retry() after reporting
ComponentDidCatchRetries ==
    /\ pc = "commit"
    /\ caught # <<>>
    /\ nthrown < MaxThrows
    /\ LET h == Head(caught)
           r == componentDidCatch(h.error, h.errorInfo, clock)
       IN /\ ~r.raised
          /\ sink' = Append(sink, r.record)
          /\ caught' = Tail(caught)
          /\ st' = [st EXCEPT ![h.boundary] = setState(@, retry)]
          /\ dirty' = h.boundary
          /\ pc' = "render"
          /\ last' = [op |-> "componentDidCatch", node |-> h.boundary]
    /\ UNCHANGED <<variants, layout, DEV, notified, clock, out, mounted, uncaught,
                   handled, timers, crashed, nthrown>>

\* a componentDidCatch that hands the record to the sink twice
ComponentDidCatchReportsTwice ==
    /\ pc = "commit"
    /\ caught # <<>>
    /\ LET h == Head(caught)
           r == componentDidCatch(h.error, h.errorInfo, clock)
       IN /\ ~r.raised
          /\ sink' = Append(Append(sink, r.record), r.record)
          /\ caught' = Tail(caught)
          /\ pc' = IF Tail(caught) = <<>> THEN "idle" ELSE "commit"
          /\ last' = [op |-> "componentDidCatch", node |-> h.boundary]
    /\ UNCHANGED <<variants, layout, DEV, notified, clock, st, out, mounted, dirty, uncaught,
                   handled, timers, crashed, nthrown>>

\* commit phase: componentDidCatch(error, errorInfo) of the next capture
ComponentDidCatch ==
    /\ pc = "commit"
    /\ caught # <<>>
    /\ LET h == Head(caught)
           r == componentDidCatch(h.error, h.errorInfo, clock)
       IN IF r.raised THEN ReportRaised(h, r)
          ELSE /\ sink' = Append(sink, r.record)
               /\ caught' = Tail(caught)
               /\ pc' = IF Tail(caught) = <<>> THEN "idle" ELSE "commit"
               /\ last' = [op |-> "componentDidCatch", node |-> h.boundary]
               /\ UNCHANGED <<variants, layout, DEV, notified, clock, st, out, mounted,
                              dirty, uncaught, handled, timers, crashed, nthrown>>

\* a retry that resets every boundary of the tree
RetryShared(b) ==
    /\ st' = [x \in DOMAIN st |-> setState(st[x], retry)]
    /\ dirty' = b
    /\ pc' = "render"
    /\ last' = [op |-> "retry", node |-> b]
    /\ UNCHANGED <<variants, layout, DEV, notified, clock, out, mounted, caught, sink, uncaught, handled,
                   timers, crashed, nthrown>>

\* retry = () => { this.setState({ hasError: false }) } on boundary b
Retry(b) ==
    /\ st' = [st EXCEPT ![b] = setState(@, retry)]
    /\ dirty' = b
    /\ pc' = "render"
    /\ last' = [op |-> "retry", node |-> b]
    /\ UNCHANGED <<variants, layout, DEV, notified, clock, out, mounted, caught, sink, uncaught, handled,
                   timers, crashed, nthrown>>

\* the user presses "Try again" in the fallback boundary b shows
ClickTryAgain(b) ==
    /\ pc = "idle"
    /\ b \in mounted
    /\ out[b].type = "ErrorFallback"
    /\ RetryWithinBound(ErrorFallback(out[b].error, out[b].retry, DEV).onClick)
    /\ Retry(ErrorFallback(out[b].error, out[b].retry, DEV).onClick)

\* a holder of the bound callback calls boundary.retry() directly
RetryCall(b) ==
    /\ pc = "idle"
    /\ b \in mounted
    /\ RetryWithinBound(b)
    /\ Retry(b)

\* a click whose failure is raised while constructing, so that the boundary
\* around the component captures it
ClickAsyncBuggyCaptured(n) ==
    /\ pc = "idle"
    /\ n \in mounted
    /\ Kind(layout, n) = "asyncBuggy"
    /\ nthrown < MaxThrows
    /\ nthrown' = nthrown + 1
    /\ st' = [st EXCEPT ![NearestBoundary(layout, n)] =
                setState(@, getDerivedStateFromError(
                               NewError("Event handler error!", nthrown + 1)))]
    /\ last' = [op |-> "clickAsyncBuggy", node |-> n]
    /\ UNCHANGED <<variants, layout, DEV, notified, clock, pc, out, mounted, dirty, caught, sink,
                   uncaught, handled, timers, crashed>>

\* AsyncBuggyComponent's handleClick: throw new Error('Event handler error!')
ClickAsyncBuggy(n) ==
    /\ pc = "idle"
    /\ n \in mounted
    /\ Kind(layout, n) = "asyncBuggy"
    /\ Len(uncaught) < MaxUncaught
    /\ uncaught' = Append(uncaught, [message |-> "Event handler error!", from |-> n])
    /\ last' = [op |-> "clickAsyncBuggy", node |-> n]
    /\ UNCHANGED <<variants, layout, DEV, notified, clock, pc, st, out, mounted, dirty, caught, sink,
                   handled, timers, crashed, nthrown>>

\* a handleClick whose catch block logs the failure and throws it again
ClickAsyncFixRethrows(n) ==
    /\ pc = "idle"
    /\ n \in mounted
    /\ Kind(layout, n) = "asyncFix"
    /\ handled < MaxHandled
    /\ Len(uncaught) < MaxUncaught
    /\ handled' = handled + 1
    /\ uncaught' = Append(uncaught, [message |-> "Event handler error!", from |-> n])
    /\ last' = [op |-> "clickAsyncFix", node |-> n]
    /\ UNCHANGED <<variants, layout, DEV, notified, clock, pc, st, out, mounted, dirty, caught, sink,
                   timers, crashed, nthrown>>

\* AsyncComponentFix's handleClick: the throw is caught and logged in place
ClickAsyncFix(n) ==
    /\ pc = "idle"
    /\ n \in mounted
    /\ Kind(layout, n) = "asyncFix"
    /\ handled < MaxHandled
    /\ handled' = handled + 1
    /\ last' = [op |-> "clickAsyncFix", node |-> n]
    /\ UNCHANGED <<variants, layout, DEV, notified, clock, pc, st, out, mounted, dirty, caught, sink,
                   uncaught, timers, crashed, nthrown>>

\* the setTimeout callback of AsyncError runs: throw new Error('Async error')
TimerFires ==
    /\ pc = "idle"
    /\ timers > 0
    /\ Len(uncaught) < MaxUncaught
    /\ timers' = timers - 1
    /\ uncaught' = Append(uncaught, [message |-> "Async error", from |-> 0])
    /\ last' = [op |-> "timer", node |-> 0]
    /\ UNCHANGED <<variants, layout, DEV, notified, clock, pc, st, out, mounted, dirty, caught, sink,
                   handled, crashed, nthrown>>

\* time passes
Tick ==
    /\ pc \in {"mount", "idle"}
    /\ clock < MaxClock
    /\ clock' = clock + 1
    /\ UNCHANGED <<variants, layout, DEV, notified, pc, st, out, mounted, dirty, caught,
                   sink, uncaught, handled, timers, crashed, nthrown, last>>

Next ==
    \/ Mount
    \/ Reconstruct
    \/ ComponentDidCatch
    \/ Tick
    \/ \E b \in Boundaries(layout) : ClickTryAgain(b)
    \/ \E b \in Boundaries(layout) : RetryCall(b)
    \/ \E n \in Nodes(layout) : ClickAsyncBuggy(n)
    \/ \E n \in Nodes(layout) : ClickAsyncFix(n)
    \/ TimerFires

Spec == Init /\ [][Next]_vars

SpecAll == InitAll /\ [][Next]_vars

\* ---- the basic and the retry variant side by side, retry never used ----

\* the compositions with one boundary
PairLayouts == {"AppFlat", "Deep", "Timer", "Custom"}

\* what constructing the children of boundary b raises in a pass with the
\* given draws (NoThrow if nothing)
ChildrenOutcome(l, b, draws) ==
    RenderChildren(l, Children(l, b), [Context EXCEPT !.mounted = {}], draws, DEV).thrown

\* a pass from the root over both instances, with the same draws; the
\* basic instance's pass ends with its commit
PairPass(op) ==
    /\ \E draws \in [BuggyNodes(layout) -> Draws] :
         /\ \E r \in {RenderNode(layout, 1, Context, draws, DEV)} : Commit(r, op, 1)
         /\ \E t \in {ChildrenOutcome(layout, 2, draws)} :
               basic' = BasicCommit(BasicPass(basic, Children(layout, 2), t))
    /\ UNCHANGED <<smart, enhanced, boundary>>

\* the first pass
PairMount == pc = "mount" /\ PairPass("mount")

\* the parent renders again and hands the boundary its children anew
RootRender == pc = "idle" /\ ~crashed /\ PairPass("rerender")

NextPair ==
    \/ PairMount
    \/ RootRender
    \/ ComponentDidCatch
    \/ Tick
    \/ \E n \in Nodes(layout) : ClickAsyncBuggy(n)
    \/ \E n \in Nodes(layout) : ClickAsyncFix(n)
    \/ TimerFires

SpecPair == InitOf(PairLayouts) /\ [][NextPair]_vars

\* ---- SmartErrorBoundary around a randomly failing component ----

\* everything but the SmartErrorBoundary instance
notSmart ==
    <<layout, DEV, pc, st, out, mounted, dirty, caught, sink, uncaught,
      handled, timers, crashed, nthrown, clock, notified, last, basic, enhanced, boundary>>

\* the first pass, and the pass scheduled by an accepted retry
SmartConstruct ==
    /\ smart.pc \in {"mount", "render"}
    /\ \E d \in Draws : smart' = SmartPass(smart, d, clock)
    /\ UNCHANGED notSmart

\* the user presses "Try Again" in the fallback
SmartClickTryAgain ==
    /\ smart.pc = "idle"
    /\ smart.out.type = "Component Error"
    /\ LET r == SmartRetry(smart.state, smart.props)
       IN smart' = [smart EXCEPT !.queued = r.queued,
                                 !.alerted = @ \/ r.alert,
                                 !.pc = IF r.queued THEN "render" ELSE "idle"]
    /\ UNCHANGED notSmart

\* a new SmartErrorBoundary with any of the props
InitSmart ==
    /\ InitMain({"Custom"})
    /\ basic = BasicNew
    /\ smart \in {SmartNew(p) : p \in SmartPropsSet}
    /\ enhanced = EnhancedNew(<<>>, "random")
    /\ boundary = BoundaryNew

NextSmart ==
    \/ SmartConstruct
    \/ SmartClickTryAgain
    \/ Tick

SpecSmart == InitSmart /\ [][NextSmart]_vars

\* ---- EnhancedErrorBoundary: automatic and manual retries ----

\* everything but the EnhancedErrorBoundary instance
notEnhanced ==
    <<layout, DEV, pc, st, out, mounted, dirty, caught, sink, uncaught,
      handled, timers, crashed, nthrown, clock, notified, last, basic, smart, boundary>>

\* the first pass, and the pass scheduled by a retry
EnhancedConstruct ==
    /\ enhanced.pc \in {"mount", "render"}
    /\ \E t \in ChildOutcomes(enhanced.child, enhanced.episode + 1) :
          enhanced' = EnhancedPass(enhanced, t)
    /\ UNCHANGED notEnhanced

\* commit phase: componentDidCatch of the capture
EnhancedComponentDidCatch ==
    /\ enhanced.pc = "commit"
    /\ enhanced' = EnhancedDidCatch(enhanced, enhanced.pending,
                                    [componentStack |-> "child"])
    /\ UNCHANGED notEnhanced

\* the user presses "Try again" in the default fallback
EnhancedClickTryAgain ==
    /\ enhanced.pc = "idle"
    /\ enhanced.out.type = "Something went wrong"
    /\ enhanced.manualRetries < MaxManualRetries
    /\ enhanced' = [enhanced EXCEPT !.state = EnhancedRetry(@),
                                    !.manualRetries = @ + 1,
                                    !.pc = "render"]
    /\ UNCHANGED notEnhanced

\* a timer set by componentDidCatch runs its callback: this.retry()
EnhancedTimerFires ==
    /\ enhanced.pc = "idle"
    /\ enhanced.timers # <<>>
    /\ enhanced' = [enhanced EXCEPT !.state = EnhancedRetry(@),
                                    !.timers = Tail(@),
                                    !.autoRetries = @ + 1,
                                    !.pc = "render"]
    /\ UNCHANGED notEnhanced

\* a new EnhancedErrorBoundary with any of the props around either child
InitEnhanced ==
    /\ InitMain({"Custom"})
    /\ basic = BasicNew
    /\ smart = SmartNew(<<>>)
    /\ enhanced \in {EnhancedNew(p, c) : p \in SmartPropsSet,
                                         c \in {"alwaysTransient", "random"}}
    /\ boundary = BoundaryNew

NextEnhanced ==
    \/ EnhancedConstruct
    \/ EnhancedComponentDidCatch
    \/ EnhancedClickTryAgain
    \/ EnhancedTimerFires

SpecEnhanced == InitEnhanced /\ [][NextEnhanced]_vars

\* The runtime's scheduler always finishes the work it has: the first mount,
\* a pass scheduled by setState, and the commit-phase componentDidCatch calls.
SpecFair ==
    /\ Init
    /\ [][Next]_vars
    /\ WF_vars(Mount)
    /\ WF_vars(Reconstruct)
    /\ WF_vars(ComponentDidCatch)

\* ---- the retry-capable ErrorBoundary around a BuggyComponent, retried ----
\* ---- any number of times                                              ----

\* everything but the instance
notBoundary ==
    <<layout, DEV, pc, st, out, mounted, dirty, caught, sink, uncaught,
      handled, timers, crashed, nthrown, clock, notified, last, basic, smart, enhanced>>

\* the first pass, or the pass scheduled by retry, with the draw d
BoundaryConstruct(d) ==
    /\ boundary.pc \in {"mount", "render"}
    /\ boundary' = BoundaryPass(boundary, d, DEV)
    /\ UNCHANGED notBoundary

\* commit phase: componentDidCatch of the capture
BoundaryComponentDidCatch ==
    /\ boundary.pc = "commit"
    /\ boundary' = BoundaryDidCatch(boundary, clock)
    /\ UNCHANGED notBoundary

\* the user presses "Try again" in the fallback on screen
BoundaryClickTryAgain ==
    /\ boundary.pc = "idle"
    /\ boundary.out.type = "ErrorFallback"
    /\ ErrorFallback(boundary.out.error, boundary.out.retry, DEV).onClick = "boundary"
    /\ boundary' = BoundaryRetry(boundary)
    /\ UNCHANGED notBoundary

\* a holder of the bound callback calls retry() while the instance is mounted
BoundaryRetryCall ==
    /\ boundary.pc = "idle"
    /\ boundary.out.type # "none"
    /\ boundary' = BoundaryRetry(boundary)
    /\ UNCHANGED notBoundary

InitRetry ==
    /\ InitMain({"Custom"})
    /\ basic = BasicNew
    /\ smart = SmartNew(<<>>)
    /\ enhanced = EnhancedNew(<<>>, "random")
    /\ boundary = BoundaryNew

NextRetry ==
    \/ \E d \in Draws : BoundaryConstruct(d)
    \/ BoundaryComponentDidCatch
    \/ BoundaryClickTryAgain
    \/ BoundaryRetryCall
    \/ Tick

\* a pass in which Math.random() gives at least one half
BoundaryConstructHighDraw ==
    \E d \in Draws : d >= Threshold /\ BoundaryConstruct(d)

\* The runtime finishes the pass and the commit it has scheduled; the user
\* keeps pressing "Try again" while the fallback is shown; and a draw of at
\* least one half is not postponed forever.
SpecRetry ==
    /\ InitRetry
    /\ [][NextRetry]_vars
    /\ WF_vars(\E d \in Draws : BoundaryConstruct(d))
    /\ WF_vars(BoundaryComponentDidCatch)
    /\ SF_vars(BoundaryClickTryAgain)
    /\ SF_vars(BoundaryConstructHighDraw)

----------------------------------------------------------------------------
(* Properties *)

\* a step that is a construction pass (the first mount or a re-construction)
PassStep == pc \in {"mount", "render"} /\ pc' \in {"idle", "commit"}

\* the output render() owes boundary b when it shows its children
ChildrenOutput(b) == [type |-> "children", children |-> Children(layout, b)]

\* the output render() owes boundary b for the failure e
FallbackOutput(b, e) == [type |-> "ErrorFallback", error |-> e, retry |-> b]

\* C1: whenever a unit raises during a construction pass, at any depth below
\* an ErrorBoundary, the nearest enclosing boundary ends the pass with
\* hasError = true and the fallback as its output, every raise of the pass is
\* captured, nothing reaches the root or the global handler, and the
\* boundaries above the capturing one keep their state and output.
C1_RenderFailureContained ==
    [][(PassStep /\ nthrown' > nthrown) =>
          /\ ~crashed'
          /\ uncaught' = uncaught
          /\ Len(caught') = nthrown' - nthrown
          /\ \A i \in 1..Len(caught') :
               LET h == caught'[i]
                   b == h.boundary
               IN /\ b \in Boundaries(layout)
                  /\ b \in Ancestors(layout, h.errorInfo.componentStack)
                  /\ \A a \in Boundaries(layout) \cap Ancestors(layout, h.errorInfo.componentStack) :
                        a <= b
                  /\ st'[b].hasError
                  /\ b \in mounted'
                  /\ out'[b].type = "ErrorFallback"
                  /\ \A a \in Boundaries(layout) \cap Ancestors(layout, b) :
                        /\ st'[a] = st[a]
                        /\ ~st'[a].hasError
                        /\ out'[a] = ChildrenOutput(a)
                        /\ a \in mounted']_vars

\* C1 witness: in the deep tree the grandchild three levels below the
\* boundary raised during the first pass and the boundary shows the fallback
C1_Witness ==
    /\ layout = "Deep"
    /\ last.op = "mount"
    /\ caught # <<>>
    /\ Head(caught).errorInfo.componentStack = 5
    /\ Cardinality(Ancestors(layout, 5) \ Ancestors(layout, 2)) = 3
    /\ st[2].hasError
    /\ out[2].type = "ErrorFallback"

\* C2: a failure raised by AsyncBuggyComponent's click handler, or by a timer
\* callback a descendant scheduled, is not captured: every boundary keeps its
\* state and output, the boundaries around the component stay Healthy and
\* show their children, no pass is scheduled, and the failure arrives at the
\* global handler.
C2_HandlerFailureNotCaptured ==
    [][((\E n \in Nodes(layout) : ClickAsyncBuggy(n)) \/ TimerFires) =>
          /\ st' = st
          /\ out' = out
          /\ mounted' = mounted
          /\ caught' = caught
          /\ sink' = sink
          /\ pc' = "idle"
          /\ Len(uncaught') = Len(uncaught) + 1
          /\ uncaught'[Len(uncaught')].message \in {"Event handler error!", "Async error"}
          /\ \A n \in Nodes(layout) :
               ClickAsyncBuggy(n) =>
                 \A b \in Boundaries(layout) \cap Ancestors(layout, n) :
                    ~st'[b].hasError /\ out'[b] = ChildrenOutput(b)]_vars

\* C2 witness: the handler failure reached the global handler while the
\* boundary around AsyncBuggyComponent is Healthy and shows its children
C2_Witness ==
    /\ layout = "AppFlat"
    /\ last.op = "clickAsyncBuggy"
    /\ uncaught # <<>>
    /\ ~st[2].hasError
    /\ out[2].type = "children"

\* C2 witness for the deferred callback: the timer's failure reached the
\* global handler and the boundary around AsyncError is Healthy
C2_WitnessTimer ==
    /\ layout = "Timer"
    /\ last.op = "timer"
    /\ uncaught # <<>>
    /\ ~st[2].hasError


\* a step in which retry() runs on boundary b
RetryStep(b) == ClickTryAgain(b) \/ RetryCall(b)

\* C3 (as claimed): Retry() on a Failed boundary leaves hasError = false and
\* the stored error null.
C3_RetryClearsFailure ==
    [][\A b \in Boundaries(layout) :
          (RetryStep(b) /\ st[b].hasError) =>
             (~st'[b].hasError /\ st'[b].error = null)]_vars

\* C4 (as claimed): in every reachable state a boundary stores a failure if
\* and only if it is Failed.
C4_ErrorStoredIffFailed ==
    \A b \in Boundaries(layout) : st[b].hasError <=> st[b].error # null

\* C5: a boundary leaves Failed only in a step in which its retry() runs; in
\* every other step a Failed boundary stays Failed with the same failure.
C5_FailedLeftOnlyByRetry ==
    [][\A b \in Boundaries(layout) :
          /\ (st[b].hasError /\ ~st'[b].hasError) => RetryStep(b)
          /\ (st[b].hasError /\ ~RetryStep(b)) => st'[b] = st[b]]_vars

\* C5 witness: retry has just run on a boundary that was Failed (its last
\* output is still the fallback) and the boundary is no longer Failed
C5_Witness ==
    /\ last.op = "retry"
    /\ pc = "render"
    /\ out[last.node].type = "ErrorFallback"
    /\ ~st[last.node].hasError

\* C6: a boundary becomes Failed only in a construction pass in which a unit
\* of its own subtree raised and the failure unwound to it, and the state it
\* takes is the one getDerivedStateFromError returns for that failure.
C6_FailedOnlyByCapture ==
    [][\A b \in Boundaries(layout) :
          (~st[b].hasError /\ st'[b].hasError) =>
             /\ PassStep
             /\ nthrown' > nthrown
             /\ \E i \in 1..Len(caught') :
                  /\ caught'[i].boundary = b
                  /\ caught'[i].errorInfo.componentStack \in Descendants(layout, b)
                  /\ \A a \in Boundaries(layout) \cap
                                Ancestors(layout, caught'[i].errorInfo.componentStack) : a <= b
                  /\ st'[b].error = caught'[i].error]_vars

\* C6 witness: the inner boundary of App became Failed in a pass in which
\* BuggyComponent raised, while the outer boundary stayed Healthy
C6_Witness ==
    /\ layout = "App"
    /\ last.op \in {"mount", "construct"}
    /\ caught # <<>>
    /\ Head(caught).boundary = 4
    /\ Head(caught).errorInfo.componentStack = 6
    /\ st[4].hasError
    /\ ~st[2].hasError

\* C7: in the pass that follows Retry() on a Failed boundary, if no unit
\* raises, the boundary is Healthy afterwards, its output is its children's
\* output, and its whole subtree is mounted.
C7_RetryThenSuccessShowsChildren ==
    [][\A b \in Boundaries(layout) :
          (/\ PassStep /\ pc = "render" /\ dirty = b
           /\ out[b].type = "ErrorFallback"
           /\ nthrown' = nthrown) =>
             /\ ~st'[b].hasError
             /\ out'[b] = ChildrenOutput(b)
             /\ Descendants(layout, b) \subseteq mounted'
             /\ b \in mounted'
             /\ pc' = "idle"]_vars

\* C7 witness: a boundary that failed before (its report is in the sink) was
\* constructed again without a raise and shows its children
C7_Witness ==
    /\ last.op = "construct"
    /\ sink # <<>>
    /\ caught = <<>>
    /\ st[last.node].error # null
    /\ ~st[last.node].hasError
    /\ out[last.node].type = "children"

\* C8: in the pass that follows Retry() on a Failed boundary, if a unit
\* raises and the failure unwinds to that boundary, the boundary is Failed
\* again and the failure it stores and hands to the fallback is the newly
\* raised one, not the one of the previous episode.
C8_RetryThenFailureIsNew ==
    [][\A b \in Boundaries(layout) :
          (/\ PassStep /\ pc = "render" /\ dirty = b
           /\ out[b].type = "ErrorFallback"
           /\ \E i \in 1..Len(caught') : caught'[i].boundary = b) =>
             /\ st'[b].hasError
             /\ st'[b].error # st[b].error
             /\ st'[b].error # out[b].error
             /\ st'[b].error.id = nthrown'
             /\ st'[b].error.id > nthrown
             /\ out'[b] = FallbackOutput(b, st'[b].error)]_vars

\* C8 witness: third episode - the boundary failed, was retried and failed,
\* was retried and failed again, and stores the third failure
C8_Witness ==
    /\ last.op = "construct"
    /\ caught # <<>>
    /\ Head(caught).boundary = last.node
    /\ st[last.node].hasError
    /\ st[last.node].error.id = 3
    /\ Len(sink) = 2

\* C9: retry() on a Healthy boundary leaves every boundary's state as it
\* was, a second retry() changes nothing the first did not, and the pass it
\* schedules constructs nothing and changes nothing.
C9_RetryIdempotentOnHealthy ==
    [][\A b \in Boundaries(layout) :
          /\ (RetryStep(b) /\ ~st[b].hasError) =>
                /\ st' = st
                /\ setState(st'[b], retry) = st'[b]
          /\ (PassStep /\ pc = "render" /\ dirty = b /\ out[b].type = "children") =>
                /\ st' = st /\ out' = out /\ mounted' = mounted
                /\ nthrown' = nthrown /\ caught' = <<>>]_vars

\* C9 witness: retry() has just run on a boundary that is Healthy, shows its
\* children and still holds the failure of an earlier episode
C9_Witness ==
    /\ last.op = "retry"
    /\ pc = "render"
    /\ out[last.node].type = "children"
    /\ ~st[last.node].hasError
    /\ st[last.node].error # null

\* C10: once a pass is committed, every mounted boundary's output is the one
\* its state determines: its children's output when hasError = false, and
\* when hasError = true the fallback given the stored failure and this
\* boundary's own retry, so that the fallback's button runs retry on this
\* boundary and changes no other boundary's state.
C10_RenderDeterminedByState ==
    [][/\ pc' \in {"idle", "commit"} =>
            \A b \in Boundaries(layout) \cap mounted' :
               /\ ~st'[b].hasError => out'[b] = ChildrenOutput(b)
               /\ st'[b].hasError =>
                    /\ out'[b] = FallbackOutput(b, st'[b].error)
                    /\ ErrorFallback(out'[b].error, out'[b].retry, DEV).onClick = b
       /\ \A b \in Boundaries(layout) :
             ClickTryAgain(b) =>
                /\ dirty' = b
                /\ \A x \in Boundaries(layout) \ {b} : st'[x] = st[x]]_vars

\* C10 witness: the inner boundary of App shows the fallback with its own
\* failure and retry while the outer boundary shows its children
C10_Witness ==
    /\ layout = "App"
    /\ pc = "idle"
    /\ st[4].hasError
    /\ out[4] = FallbackOutput(4, st[4].error)
    /\ out[2] = ChildrenOutput(2)
    /\ {2, 4} \subseteq mounted


\* C11: in App, once mounted, the outer boundary is never Failed and always
\* shows its children - the heading, the inner boundary and the User Profile
\* block stay mounted - whatever the draws and however many retries; every
\* capture is made by the inner boundary for a raise of BuggyComponent, and
\* the inner boundary then shows its own fallback.
C11_InnerFailureStaysInside ==
    (layout = "App" /\ pc # "mount") =>
       /\ ~crashed
       /\ ~st[2].hasError
       /\ st[2] = InitialState
       /\ out[2] = ChildrenOutput(2)
       /\ {2, 3, 4, 7} \subseteq mounted
       /\ \A i \in 1..Len(caught) :
            caught[i].boundary = 4 /\ caught[i].errorInfo.componentStack = 6
       /\ (st[4].hasError /\ pc # "render") =>
            (out[4] = FallbackOutput(4, st[4].error) /\ 6 \notin mounted)

\* C11 witness: after two failed episodes the inner boundary of App shows its
\* fallback while the outer boundary is Healthy and User Profile is mounted
C11_Witness ==
    /\ layout = "App"
    /\ pc = "idle"
    /\ Len(sink) >= 2
    /\ st[4].hasError
    /\ out[4].type = "ErrorFallback"
    /\ ~st[2].hasError
    /\ 7 \in mounted

\* boundaries neither of which encloses the other
Independent(a, b) ==
    /\ a # b
    /\ a \notin Ancestors(layout, b)
    /\ b \notin Ancestors(layout, a)

\* boundary b captured a failure in the pass just made
CapturedIn(q, b) == \E i \in 1..Len(q) : q[i].boundary = b

\* C12: with two independent boundaries, a pass in which a unit under the
\* first raises and no unit under the second does leaves the first Failed and
\* showing the fallback, and leaves the second with the state it had; a
\* second boundary constructed in that pass is Healthy, shows its children
\* and has its subtree mounted.
C12_SiblingIsolation ==
    [][\A a, b \in Boundaries(layout) :
          (/\ PassStep
           /\ Independent(a, b)
           /\ CapturedIn(caught', a)
           /\ ~CapturedIn(caught', b)) =>
             /\ st'[a].hasError
             /\ out'[a].type = "ErrorFallback"
             /\ st'[b] = st[b]
             /\ pc = "mount" =>
                  /\ ~st'[b].hasError
                  /\ out'[b] = ChildrenOutput(b)
                  /\ Descendants(layout, b) \subseteq mounted']_vars

\* C12 witness: in the first pass the first sibling raised and the second
\* did not: the first boundary shows the fallback, the second its children
C12_Witness ==
    /\ layout = "Siblings"
    /\ last.op = "mount"
    /\ st[2].hasError
    /\ out[2].type = "ErrorFallback"
    /\ ~st[4].hasError
    /\ out[4].type = "children"
    /\ 5 \in mounted
    /\ 3 \notin mounted


\* C13 (as claimed): the fallback view never raises - in no construction pass
\* does a Failed boundary's ErrorFallback raise for the failure it is given
\* (null included, DEV or not), so no failure ever originates at a boundary
\* during a pass and none reaches the root.
C13_FallbackNeverRaises ==
    [][PassStep =>
          /\ ~crashed'
          /\ \A i \in 1..Len(caught') :
               /\ caught'[i].errorInfo.componentStack \notin Boundaries(layout)
               /\ ~ErrorFallback(caught'[i].error, caught'[i].boundary, DEV).raised]_vars

\* boundary b, having captured the value v, renders in the Failed state and
\* the fallback it constructs raises
FallbackRaisesOn(b, v) ==
    LET s1 == setState(st[b], getDerivedStateFromError(v))
        el == render(s1, b, Children(layout, b))
    IN /\ el.type = "ErrorFallback"
       /\ ErrorFallback(el.error, el.retry, DEV).raised

\* the step is boundary b's own failure: the componentDidCatch the runtime
\* calls on b for its capture raises (the hook of the guide's SelfError
\* example; getDerivedStateFromError returns an object literal and has no
\* raising outcome), or the pass constructs a unit below b that throws null,
\* b captures it and the fallback b then constructs raises
SelfFailureOf(b) ==
    \/ /\ pc = "commit"
       /\ caught # <<>>
       /\ Head(caught).boundary = b
       /\ componentDidCatch(Head(caught).error, Head(caught).errorInfo, clock).raised
    \/ /\ PassStep
       /\ FallbackRaisesOn(b, null)
       /\ \E n \in Nodes(layout) :
            /\ Kind(layout, n) = "throwsNull"
            /\ NearestBoundary(layout, n) = b
            /\ \/ pc = "mount"
               \/ /\ dirty \in Ancestors(layout, n)
                  /\ out[dirty].type = "ErrorFallback"

\* C14: when a boundary's own componentDidCatch or its Failed-state render
\* raises, that boundary does not capture the failure: it is unmounted, and
\* the nearest boundary above it becomes Failed with the new failure and
\* shows its fallback; with no boundary above, the failure reaches the root.
C14_SelfFailureGoesToAncestor ==
    [][\A b \in Boundaries(layout) :
          SelfFailureOf(b) =>
             LET a == NearestBoundary(layout, b)
             IN /\ b \notin mounted'
                /\ ~CapturedIn(caught', b)
                /\ sink' = sink
                /\ a = 0 => (crashed' /\ mounted' = {} /\ pc' = "idle")
                /\ a # 0 =>
                     /\ ~crashed'
                     /\ st'[a].hasError
                     /\ st'[a].error.tag = "Error"
                     /\ st'[a].error.id = nthrown'
                     /\ nthrown' = nthrown + 1
                     /\ out'[a] = FallbackOutput(a, st'[a].error)
                     /\ \E i \in 1..Len(caught') :
                          /\ caught'[i].boundary = a
                          /\ caught'[i].errorInfo.componentStack = b
                          /\ caught'[i].error = st'[a].error]_vars

\* C14 witness: the inner boundary's own failure made the outer boundary
\* Failed; the inner boundary is gone and the outer one shows its fallback
C14_Witness ==
    /\ layout = "NullNested"
    /\ pc = "commit"
    /\ ~crashed
    /\ st[2].hasError
    /\ st[2].error.tag = "Error"
    /\ out[2].type = "ErrorFallback"
    /\ 4 \notin mounted
    /\ Head(caught).boundary = 2
    /\ Head(caught).errorInfo.componentStack = 4


\* the step runs componentDidCatch for the capture at the head of the queue
ReportStep == pc = "commit" /\ caught # <<>>

\* C15: the reporting hook runs after the state update: whenever
\* componentDidCatch runs for a captured failure, the capturing boundary
\* already has hasError = TRUE with that failure stored and shows its
\* fallback, and reports are emitted in no other kind of step.
C15_ReportAfterStateUpdate ==
    [][/\ ReportStep =>
            LET h == Head(caught)
            IN /\ st[h.boundary].hasError
               /\ st[h.boundary].error = h.error
               /\ out[h.boundary] = FallbackOutput(h.boundary, h.error)
               /\ sink' = Append(sink, componentDidCatch(h.error, h.errorInfo, clock).record)
               /\ sink'[Len(sink')].message = st[h.boundary].error.message
       /\ sink' # sink => ReportStep]_vars

\* C15 witness: a report has just been emitted for the failure the boundary
\* holds
C15_Witness ==
    /\ pc = "idle"
    /\ last.op = "componentDidCatch"
    /\ sink # <<>>
    /\ st[last.node].hasError
    /\ st[last.node].error.message = sink[Len(sink)].message
    /\ sink[Len(sink)].component \in Descendants(layout, last.node)

\* C16 (as claimed): every run of the reporting hook hands the sink one
\* record with the failure's message, its component stack and the time of
\* the call, and leaves the containment state of every boundary as the
\* capture set it, even when the reporting path itself fails.
C16_ReportRecordAndContainment ==
    [][ReportStep =>
          LET h == Head(caught)
          IN /\ Len(sink') = Len(sink) + 1
             /\ SubSeq(sink', 1, Len(sink)) = sink
             /\ sink'[Len(sink')].component = h.errorInfo.componentStack
             /\ sink'[Len(sink')].timestamp = ToISOString(clock)
             /\ h.error # null => sink'[Len(sink')].message = h.error.message
             /\ st' = st
             /\ st'[h.boundary].hasError
             /\ st'[h.boundary].error = h.error]_vars

\* C17 (as claimed): a boundary given a fallback prop shows that fallback
\* when Failed, and a boundary given an onError prop calls it with the
\* failure each time it captures one.
C17_CustomFallbackAndCallback ==
    [][ReportStep =>
          LET h == Head(caught)
              p == Props(layout, h.boundary)
          IN /\ p.fallback # "none" => out[h.boundary].type = p.fallback
             /\ p.onError => notified' = Append(notified, h.error)]_vars

\* the messages of the failures the components of the repository raise
Messages ==
    {"Random crash!", "Cannot read properties of null", "Event handler error!",
     "Async error"}

\* the values a boundary can be handed as the failure
FailureValues == {null} \cup {NewError(m, i) : m \in Messages, i \in 1..(MaxThrows + 1)}

\* C18: the fallback discloses the failure's message only in development:
\* with DEV the details are the stored failure's message; without DEV the
\* details are hidden and the fallback's output is the same for every
\* failure value.
C18_DetailsOnlyInDev ==
    \A b \in Boundaries(layout) \cap mounted :
       out[b].type = "ErrorFallback" =>
          LET v == ErrorFallback(out[b].error, out[b].retry, DEV)
          IN /\ ~DEV => v.details = "hidden"
             /\ ~DEV => \A e \in FailureValues :
                           ErrorFallback(e, out[b].retry, DEV) = v
             /\ DEV => v.details = out[b].error.message
             /\ out[b].error \in FailureValues

\* C18 witness: a production fallback is on screen for a captured failure
\* that has a message
C18_Witness ==
    /\ ~DEV
    /\ pc = "idle"
    /\ \E b \in Boundaries(layout) \cap mounted :
         /\ out[b].type = "ErrorFallback"
         /\ out[b].error.tag = "Error"
         /\ out[b].error.message = "Random crash!"
         /\ ErrorFallback(out[b].error, out[b].retry, DEV).details = "hidden"

\* C19: a click on AsyncComponentFix's button is handled in place: the
\* failure is caught and logged once, nothing leaves the handler, and the
\* state and output of every boundary (and the rest of the tree) stay as
\* they were.
C19_GuardedHandlerContains ==
    [][handled' # handled =>
          /\ pc = "idle"
          /\ \E n \in mounted : Kind(layout, n) = "asyncFix" /\ last'.node = n
          /\ handled' = handled + 1
          /\ uncaught' = uncaught
          /\ st' = st
          /\ out' = out
          /\ mounted' = mounted
          /\ caught' = caught
          /\ sink' = sink
          /\ ~crashed'
          /\ pc' = "idle"]_vars

\* C19 witness: the guarded button was clicked twice under a healthy boundary
C19_Witness ==
    /\ layout = "AppFlat"
    /\ handled = MaxHandled
    /\ last.op = "clickAsyncFix"
    /\ uncaught = <<>>
    /\ ~st[2].hasError
    /\ out[2].type = "children"
    /\ 5 \in mounted

\* C20: containment state is private to an instance: a retry on boundary b
\* leaves the state of every other boundary unchanged, and a pass leaves
\* unchanged the state of every boundary that stays mounted and captures
\* nothing in it.
C20_StatePrivate ==
    [][\A b \in Boundaries(layout) :
          /\ RetryStep(b) => \A x \in Boundaries(layout) \ {b} : st'[x] = st[x]
          /\ (PassStep /\ b \in mounted' /\ ~CapturedIn(caught', b)) =>
                st'[b] = st[b]]_vars

\* C20 witness: two boundaries are Failed, retry was called on one of them
\* and the other is still Failed with its own failure
C20_Witness ==
    /\ layout = "Siblings"
    /\ pc = "render"
    /\ last = [op |-> "retry", node |-> 2]
    /\ ~st[2].hasError
    /\ st[4].hasError
    /\ st[4].error.tag = "Error"
    /\ out[4].type = "ErrorFallback"


\* the number of captures queued for boundary b in q
QueuedFor(q, b) == Cardinality({i \in 1..Len(q) : q[i].boundary = b})

\* C21: one capture and one report per failure episode: a pass queues one
\* report for exactly the boundaries that go from Healthy to Failed in it,
\* each run of componentDidCatch hands the sink exactly one record and
\* removes that capture from the queue, no other step (retry, click, timer)
\* queues or emits a report, and so reports sent plus reports queued always
\* equal the number of failures captured.
C21_OneReportPerEpisode ==
    [][/\ PassStep =>
            /\ caught = <<>>
            /\ \A b \in Boundaries(layout) :
                 QueuedFor(caught', b) =
                    IF ~st[b].hasError /\ st'[b].hasError THEN 1 ELSE 0
            /\ sink' = sink
       /\ ReportStep =>
            /\ Len(sink') = Len(sink) + 1
            /\ caught' = Tail(caught)
            /\ st' = st
       /\ (~PassStep /\ ~ReportStep) => (sink' = sink /\ caught' = caught)
       /\ Len(sink') + Len(caught') = nthrown']_vars

\* C21 witness: two failure episodes of one boundary, separated by a retry,
\* gave two reports
C21_Witness ==
    /\ layout = "AppFlat"
    /\ pc = "idle"
    /\ nthrown = 2
    /\ Len(sink) = 2
    /\ caught = <<>>
    /\ st[2].hasError
    /\ sink[1].component = 3
    /\ sink[2].component = 3


\* C22: BuggyComponent raises "Random crash!" exactly when shouldThrow is
\* set and the draw of the pass is below one half, and otherwise produces
\* "I am working fine!"; in a mount each BuggyComponent is either mounted or
\* its "Random crash!" is captured by the boundary around it, never both.
C22_BuggyComponentRaisesOnLowDraw ==
    [][/\ \A sh \in BOOLEAN, d \in Draws :
            LET r == BuggyComponent(sh, d)
            IN /\ r.raised <=> (sh /\ d < Threshold)
               /\ r.raised => r.message = "Random crash!"
               /\ ~r.raised => r.view = "I am working fine!"
       /\ (PassStep /\ pc = "mount") =>
            \A n \in BuggyNodes(layout) :
               (n \in mounted') #
               (\E i \in 1..Len(caught') :
                   /\ caught'[i].errorInfo.componentStack = n
                   /\ caught'[i].boundary = NearestBoundary(layout, n)
                   /\ caught'[i].error.message = "Random crash!")]_vars

\* C22 witness: with the same props BuggyComponent failed on the first pass
\* and was constructed on the pass after the retry
C22_Witness ==
    /\ layout = "Custom"
    /\ pc = "idle"
    /\ last.op = "construct"
    /\ 3 \in mounted
    /\ ~st[2].hasError
    /\ Len(sink) = 1
    /\ sink[1].component = 3
    /\ sink[1].message = "Random crash!"


\* C23: retry eventually recovers the randomly failing component: with a
\* BuggyComponent (shouldThrow set) inside the retry-capable ErrorBoundary,
\* if the user presses "Try again" whenever the fallback is shown and a draw
\* of at least one half is not postponed forever, then whenever the boundary
\* is Failed it eventually is Healthy again with "I am working fine!" on
\* screen, by the steps of the mounted instance alone (nothing mounts anew).
C23_RetryEventuallyRecovers ==
    boundary.state.hasError
       ~> (/\ boundary.pc = "idle"
           /\ ~boundary.crashed
           /\ ~boundary.state.hasError
           /\ boundary.out = [type |-> "children", children |-> BoundaryChildren]
           /\ boundary.childMounted)

\* C23 witness: the boundary failed, was retried and failed again with
\* another Error, was retried once more and now shows the BuggyComponent
C23_Witness ==
    /\ boundary.pc = "idle"
    /\ ~boundary.crashed
    /\ ~boundary.state.hasError
    /\ boundary.state.error.tag = "Error"
    /\ boundary.state.error.id = 2
    /\ boundary.logged # null
    /\ boundary.out.type = "children"
    /\ boundary.childMounted


\* C24: every construction pass settles.  A pass ends in one step and is
\* followed only by the componentDidCatch calls it queued, each of which
\* shortens the queue and changes no state and no output; a boundary that
\* captured shows its fallback and none of its children; from the settled
\* state only a retry starts a new pass; and under the scheduler's fairness
\* every state leads to a settled one.
C24_PassSettles ==
    /\ [][/\ PassStep =>
               /\ dirty' = 0
               /\ Len(caught') <= Cardinality(Boundaries(layout))
               /\ \A i \in 1..Len(caught') :
                    LET b == caught'[i].boundary
                    IN /\ st'[b] = setState(st[b], getDerivedStateFromError(caught'[i].error))
                       /\ out'[b] = FallbackOutput(b, caught'[i].error)
                       /\ Descendants(layout, b) \cap mounted' = {}
          /\ ReportStep =>
               /\ pc' \in {"commit", "idle"}
               /\ Len(caught') < Len(caught)
               /\ st' = st /\ out' = out /\ mounted' = mounted /\ dirty' = dirty
          /\ pc = "idle" =>
               /\ out' = out /\ mounted' = mounted /\ caught' = caught
               /\ pc' \in {"idle", "render"}
               /\ pc' = "render" => last'.op = "retry"]_vars
    /\ (pc # "idle") ~> (pc = "idle" /\ caught = <<>>)

\* C24 witness: the pass that captured a failure has settled: one state
\* update, the fallback on screen, one report, nothing pending
C24_Witness ==
    /\ layout = "Deep"
    /\ pc = "idle"
    /\ dirty = 0
    /\ caught = <<>>
    /\ nthrown = 1
    /\ Len(sink) = 1
    /\ st[2].hasError
    /\ out[2] = FallbackOutput(2, st[2].error)
    /\ Descendants(layout, 2) \cap mounted = {}


\* C25: in the basic variant Failed is absorbing: once hasError is true every
\* later step leaves it true, the instance keeps showing the static
\* "Something went wrong!" and its children are not constructed again.
C25_BasicFailedIsAbsorbing ==
    [][basic.state.hasError =>
          /\ basic'.state.hasError
          /\ basic'.out = [type |-> "h2", text |-> "Something went wrong!"]
          /\ ~basic'.childrenMounted
          /\ Len(basic'.pending) + Len(basic'.console)
               = Len(basic.pending) + Len(basic.console)]_vars

\* C25 witness: the basic instance is Failed, has logged its failure, and
\* the parent has rendered it again since
C25_Witness ==
    /\ basic.state.hasError
    /\ basic.out.type = "h2"
    /\ ~basic.childrenMounted
    /\ Len(basic.console) = 1
    /\ last.op = "rerender"
    /\ pc = "idle"

\* C26: run on the same construction outcomes with no retry, the basic and
\* the retry-capable variant have the same hasError in every state and their
\* render() chooses the same branch: children in both or fallback in both.
C26_VariantsAgreeWithoutRetry ==
    /\ basic.state.hasError = st[2].hasError
    /\ (basic.out.type = "none") = (out[2].type = "none")
    /\ (basic.out.type = "children") = (out[2].type = "children")
    /\ (basic.out.type = "h2") = (out[2].type = "ErrorFallback")
    /\ BasicRender(basic.state, Children(layout, 2)).type = "children"
         <=> render(st[2], 2, Children(layout, 2)).type = "children"
    /\ basic.childrenMounted <=> (Children(layout, 2) \subseteq mounted)

\* C26 witness: a pass in which the children were constructed was followed
\* by one in which they failed, and both variants are Failed
C26_Witness ==
    /\ layout = "AppFlat"
    /\ handled = 1
    /\ pc = "idle"
    /\ last.op = "componentDidCatch"
    /\ st[2].hasError
    /\ basic.state.hasError
    /\ out[2].type = "ErrorFallback"
    /\ basic.out.type = "h2"


\* C27 (as claimed): the reporting path never raises: componentDidCatch and
\* logErrorToService complete for every captured value, null included, so
\* after the report the capturing boundary is still mounted and Failed and
\* the failure has not reached a boundary above it or the root.
C27_ReportingNeverRaises ==
    [][ReportStep =>
          LET h == Head(caught)
          IN /\ ~componentDidCatch(h.error, h.errorInfo, clock).raised
             /\ ~crashed'
             /\ h.boundary \in mounted'
             /\ st'[h.boundary].hasError
             /\ nthrown' = nthrown]_vars


\* C28: the retry budget of SmartErrorBoundary: retryCount starts at 0; a
\* press of "Try Again" with retryCount < maxRetries queues one update and
\* schedules a new construction, and that update increments retryCount by
\* one and clears hasError and error, so the pass constructs the children
\* again; a press with retryCount >= maxRetries leaves the state unchanged
\* (still Failed) and schedules nothing; retryCount never exceeds maxRetries
\* and the children are constructed at most maxRetries times after the
\* first pass.
C28_RetryBudget ==
    [][/\ smart.pc = "mount" => smart.state.retryCount = 0
       /\ smart'.state.retryCount <= MaxRetriesOf(smart.props)
       /\ smart'.attempts <= MaxRetriesOf(smart.props) + 1
       /\ smart'.attempts <= smart'.state.retryCount + 1
       /\ (smart.pc = "idle" /\ smart' # smart) =>
            /\ smart'.state = smart.state
            /\ smart'.state.hasError
            /\ smart'.attempts = smart.attempts
            /\ IF smart.state.retryCount >= MaxRetriesOf(smart.props)
               THEN smart'.pc = "idle" /\ ~smart'.queued
               ELSE smart'.pc = "render" /\ smart'.queued
       /\ (smart.pc = "render" /\ smart' # smart) =>
            /\ smart.queued /\ ~smart'.queued
            /\ SmartProcessUpdates(smart, clock).state
                 = [hasError |-> FALSE, error |-> null,
                    retryCount |-> smart.state.retryCount + 1,
                    lastRetryTime |-> clock]
            /\ smart'.state.retryCount = smart.state.retryCount + 1
            /\ smart'.state.lastRetryTime = clock
            /\ smart'.attempts = smart.attempts + 1
            /\ smart'.state.hasError => smart'.state.error.id = smart'.attempts
            /\ smart'.pc = "idle"
       /\ smart.pc = "mount" => smart'.state.retryCount = smart.state.retryCount]_vars

\* C28 witness: with the default maxRetries the budget is used up: three
\* retries were accepted, a fourth press was refused, the boundary is Failed
C28_Witness ==
    /\ smart.props = <<>>
    /\ smart.state.retryCount = DefaultMaxRetries
    /\ smart.attempts = DefaultMaxRetries + 1
    /\ smart.state.hasError
    /\ smart.alerted
    /\ smart.pc = "idle"


\* a step of the EnhancedErrorBoundary in which a pending timer runs
TimerStep == enhanced.timers # <<>> /\ enhanced'.timers = Tail(enhanced.timers)

\* C29: automatic retry terminates: componentDidCatch sets a timer only
\* while retryCount < maxRetries and only for a transient failure, so the
\* timers set and the automatic retries made never exceed maxRetries
\* together; and around a child that fails with a transient error on every
\* attempt, once no timer is pending the boundary stays Failed until the
\* user presses "Try again".
C29_AutoRetryBounded ==
    [][/\ Len(enhanced'.timers) > Len(enhanced.timers) =>
            /\ enhanced.pc = "commit"
            /\ enhanced.state.retryCount < MaxRetriesOf(enhanced.props)
            /\ isTransientError(enhanced.pending)
            /\ Len(enhanced'.timers) = Len(enhanced.timers) + 1
       /\ (enhanced.pc = "commit" /\ ~isTransientError(enhanced.pending)) =>
            enhanced'.timers = enhanced.timers
       /\ enhanced'.autoRetries + Len(enhanced'.timers) <= MaxRetriesOf(enhanced.props)
       /\ enhanced'.state.retryCount = enhanced'.autoRetries + enhanced'.manualRetries
       /\ (/\ enhanced.child = "alwaysTransient"
           /\ enhanced.pc = "idle"
           /\ enhanced.timers = <<>>
           /\ enhanced' # enhanced) =>
            /\ enhanced.state.hasError
            /\ enhanced'.manualRetries = enhanced.manualRetries + 1]_vars

\* C29 witness: with the default maxRetries a child that always fails with a
\* transient error was retried automatically three times and no more; the
\* boundary is Failed with no timer pending
C29_Witness ==
    /\ enhanced.props = <<>>
    /\ enhanced.child = "alwaysTransient"
    /\ enhanced.autoRetries = DefaultMaxRetries
    /\ enhanced.manualRetries = 0
    /\ enhanced.timers = <<>>
    /\ enhanced.pc = "idle"
    /\ enhanced.state.hasError
    /\ enhanced.episode = DefaultMaxRetries + 1

\* C30 (as claimed): a timer acts only on the failure episode that set it:
\* when a timer runs, the boundary is still Failed and its failure is the
\* one of the episode in which the timer was set.
C30_TimerActsOnItsEpisode ==
    [][TimerStep =>
          /\ enhanced.state.hasError
          /\ Head(enhanced.timers).episode = enhanced.episode
          /\ enhanced.state.error.id = Head(enhanced.timers).episode]_vars

====
